---- MODULE Spec2Model ----
(***************************************************************************)
(* Model of models/attention.py: ScaledDotProductAttention,                *)
(* MultiHeadAttention and the construction of SelfAttention.               *)
(*                                                                         *)
(* A tensor is a record [shape, data]: data is the row-major (contiguous)  *)
(* storage, so view() keeps data and changes shape, and permute() followed *)
(* by contiguous() moves the elements.  A number is a pair <<n, d>>: a     *)
(* reduced fraction n/d when d > 0, and <<0,0>> = NaN, <<-1,0>> = -inf,    *)
(* <<1,0>> = +inf, with the IEEE rules for them.  exp is the base-4        *)
(* exponential: like e^x it is positive, strictly increasing and 0 at      *)
(* -inf, and it keeps every weight an exact fraction, because the scaled   *)
(* scores of the model are multiples of 1/2.                               *)
(***************************************************************************)
EXTENDS Integers, Sequences, FiniteSets, TLC

\* ------------------------------------------------------------------------
\* Bounds of the model
MaxBatch == 2
MaxHead == 2
MaxSeq == 2
\* per-head hidden sizes of q and k: perfect squares, so that sqrt is exact
HiddenDims == {1, 4}
ValueDims == {1, 2}
InDims == {2}
OutDims == {1, 2}

\* ------------------------------------------------------------------------
\* Numbers
NaN == <<0, 0>>
NegInf == <<-1, 0>>
PosInf == <<1, 0>>

Abs(x) == IF x < 0 THEN -x ELSE x

RECURSIVE GCD(_, _)
GCD(a, b) == IF b = 0 THEN a ELSE GCD(b, a % b)

Frac(n, d) ==
    LET g == GCD(Abs(n), Abs(d))
        s == IF d < 0 THEN -1 ELSE 1
    IN  <<s * (n \div g), s * (d \div g)>>

Num(n) == <<n, 1>>
IsNaN(a) == a = NaN
IsFinite(a) == a[2] > 0

Neg(a) == <<-a[1], a[2]>>

Add(a, b) ==
    IF IsNaN(a) \/ IsNaN(b) THEN NaN
    ELSE IF IsFinite(a) /\ IsFinite(b)
         THEN LET g == GCD(a[2], b[2])
              IN  Frac(a[1] * (b[2] \div g) + b[1] * (a[2] \div g), a[2] * (b[2] \div g))
    ELSE IF IsFinite(a) THEN b
    ELSE IF IsFinite(b) THEN a
    ELSE IF a = b THEN a ELSE NaN

Sub(a, b) == Add(a, Neg(b))

Sign(a) == IF a[1] > 0 THEN 1 ELSE IF a[1] < 0 THEN -1 ELSE 0

Mul(a, b) ==
    IF IsNaN(a) \/ IsNaN(b) THEN NaN
    ELSE IF IsFinite(a) /\ IsFinite(b)
         THEN LET g1 == GCD(Abs(a[1]), b[2])
                  g2 == GCD(Abs(b[1]), a[2])
              IN  IF a[1] = 0 \/ b[1] = 0 THEN <<0, 1>>
                  ELSE <<(a[1] \div g1) * (b[1] \div g2), (a[2] \div g2) * (b[2] \div g1)>>
    ELSE IF Sign(a) * Sign(b) = 0 THEN NaN
    ELSE <<Sign(a) * Sign(b), 0>>

Div(a, b) ==
    IF IsNaN(a) \/ IsNaN(b) THEN NaN
    ELSE IF IsFinite(b)
         THEN IF b[1] = 0
              THEN (IF Sign(a) = 0 THEN NaN ELSE <<Sign(a), 0>>)
              ELSE Mul(a, Frac(b[2], b[1]))
    ELSE IF IsFinite(a) THEN <<0, 1>> ELSE NaN

Less(a, b) ==
    IF IsNaN(a) \/ IsNaN(b) THEN FALSE
    ELSE IF IsFinite(a) /\ IsFinite(b) THEN a[1] * b[2] < b[1] * a[2]
    ELSE IF IsFinite(a) THEN b = PosInf
    ELSE IF IsFinite(b) THEN a = NegInf
    ELSE a = NegInf /\ b = PosInf

RECURSIVE Pow2(_)
Pow2(n) == IF n = 0 THEN 1 ELSE 2 * Pow2(n - 1)

\* 4^x for x a multiple of 1/2
Exp(a) ==
    IF IsNaN(a) THEN NaN
    ELSE IF a = NegInf THEN <<0, 1>>
    ELSE IF a = PosInf THEN PosInf
    ELSE LET h == (2 * a[1]) \div a[2]
         IN  IF h >= 0 THEN <<Pow2(h), 1>> ELSE <<1, Pow2(-h)>>

\* np.power(x, 0.5) for a perfect square x
Sqrt(x) == CHOOSE r \in 0..x : r * r = x

RECURSIVE SumSeq(_)
SumSeq(s) == IF s = <<>> THEN <<0, 1>> ELSE Add(Head(s), SumSeq(Tail(s)))

RECURSIVE MaxSeqOf(_)
MaxSeqOf(s) ==
    IF Len(s) = 1 THEN s[1]
    ELSE LET m == MaxSeqOf(Tail(s))
         IN  IF IsNaN(s[1]) \/ IsNaN(m) THEN NaN
             ELSE IF Less(s[1], m) THEN m ELSE s[1]

\* ------------------------------------------------------------------------
\* Tensors
RECURSIVE Prod(_)
Prod(s) == IF s = <<>> THEN 1 ELSE Head(s) * Prod(Tail(s))

Numel(t) == Len(t.data)

\* the sequence s with every element computed
Stored(s) == s \o <<>>

\* the 0-based multi-index of the 0-based flat index f in a contiguous
\* tensor of the given shape
Strides(shape) ==
    Stored([a \in 1..Len(shape) |-> Prod(SubSeq(shape, a + 1, Len(shape)))])

Unravel(f, shape, strides) ==
    Stored([a \in 1..Len(shape) |-> (f \div strides[a]) % shape[a]])

\* the 0-based flat index of the 0-based multi-index idx (up to 4 axes)
Ravel(idx, shape) ==
    CASE Len(shape) = 1 -> idx[1]
      [] Len(shape) = 2 -> idx[1] * shape[2] + idx[2]
      [] Len(shape) = 3 -> (idx[1] * shape[2] + idx[2]) * shape[3] + idx[3]
      [] Len(shape) = 4 ->
             ((idx[1] * shape[2] + idx[2]) * shape[3] + idx[3]) * shape[4] + idx[4]

At(t, idx) == t.data[Ravel(idx, t.shape) + 1]

\* the 0-based multi-indices of tensors with n axes
Idx(n) == [1..n -> Nat]

\* the contiguous tensor of the given shape whose element at idx is F[idx]
Tensor(shape, F) ==
    LET strides == Strides(shape)
    IN  [shape |-> shape,
         data |-> Stored([f \in 1..Prod(shape) |-> F[Unravel(f - 1, shape, strides)]])]

\* Tensor.view: same storage, new shape; one entry of the shape may be -1
View(t, shape) ==
    LET known == Prod([a \in 1..Len(shape) |-> IF shape[a] = -1 THEN 1 ELSE shape[a]])
        full == [a \in 1..Len(shape) |->
                    IF shape[a] = -1 THEN Numel(t) \div known ELSE shape[a]]
    IN  [shape |-> full, data |-> t.data]

\* Tensor.permute(dims).contiguous(): axis a of the result is axis dims[a]
\* (0-based) of t
Permute(t, dims) ==
    LET shape == [a \in 1..Len(dims) |-> t.shape[dims[a] + 1]]
        Src(idx) == [b \in 1..Len(dims) |->
                        idx[CHOOSE a \in 1..Len(dims) : dims[a] + 1 = b]]
    IN  Tensor(shape, [idx \in Idx(Len(dims)) |-> At(t, Src(idx))])

\* Tensor.transpose(1, 2) of a 3-d tensor
Transpose12(t) == Permute(t, <<0, 2, 1>>)

\* torch.bmm
BmmOk(a, b) == a.shape[1] = b.shape[1] /\ a.shape[3] = b.shape[2]

Bmm(a, b) ==
    Tensor(<<a.shape[1], a.shape[2], b.shape[3]>>,
           [idx \in Idx(3) |->
               SumSeq([m \in 1..a.shape[3] |->
                          Mul(At(a, <<idx[1], idx[2], m - 1>>),
                              At(b, <<idx[1], m - 1, idx[3]>>))])])

DivScalar(t, s) ==
    [shape |-> t.shape, data |-> Stored([f \in 1..Numel(t) |-> Div(t.data[f], s)])]

\* masked_fill that writes 0 at the masked positions
MaskedFill_Zero(t, mask, value) ==
    [shape |-> t.shape,
     data |-> Stored([f \in 1..Numel(t) |-> IF mask.data[f] THEN Num(0) ELSE t.data[f]])]

\* masked_fill that reads the mask the other way round (true = keep)
MaskedFill_Inverted(t, mask, value) ==
    [shape |-> t.shape,
     data |-> Stored([f \in 1..Numel(t) |-> IF mask.data[f] THEN t.data[f] ELSE value])]

\* Tensor.masked_fill(mask, value): a new tensor
MaskedFill(t, mask, value) ==
    [shape |-> t.shape,
     data |-> Stored([f \in 1..Numel(t) |-> IF mask.data[f] THEN value ELSE t.data[f]])]

\* Tensor.repeat_interleave(n, dim=0): each entry of axis 0 n times in a row
Repeat_Interleave(t, n) ==
    LET sz == t.shape[2] * t.shape[3]
    IN  [shape |-> <<n * t.shape[1], t.shape[2], t.shape[3]>>,
         data |-> Stored([f \in 1..(n * Numel(t)) |->
                             t.data[((f - 1) \div (n * sz)) * sz + ((f - 1) % sz) + 1]])]

\* Tensor.repeat(n, 1, 1): n copies along axis 0
Repeat(t, n) ==
    [shape |-> <<n * t.shape[1], t.shape[2], t.shape[3]>>,
     data |-> Stored([f \in 1..(n * Numel(t)) |-> t.data[((f - 1) % Numel(t)) + 1]])]

\* a softmax that gives a fully masked row the weights 0
SoftmaxRow_Safe(r) ==
    LET m == MaxSeqOf(r)
        e == Stored([j \in 1..Len(r) |-> Exp(Sub(r[j], m))])
        s == SumSeq(e)
    IN  IF m = NegInf THEN Stored([j \in 1..Len(r) |-> Num(0)])
        ELSE Stored([j \in 1..Len(r) |-> Div(e[j], s)])

\* softmax of one row: exp(x - max) / sum
SoftmaxRow(r) ==
    LET m == MaxSeqOf(r)
        e == Stored([j \in 1..Len(r) |-> Exp(Sub(r[j], m))])
        s == SumSeq(e)
    IN  Stored([j \in 1..Len(r) |-> Div(e[j], s)])

SoftmaxLast(t) ==
    LET n == t.shape[3]
        rows == Stored([r \in 1..(t.shape[1] * t.shape[2]) |->
                           SoftmaxRow(SubSeq(t.data, (r - 1) * n + 1, r * n))])
    IN  [shape |-> t.shape,
         data |-> Stored([f \in 1..Numel(t) |-> rows[((f - 1) \div n) + 1][((f - 1) % n) + 1]])]

\* nn.Softmax(dim=1): over the query axis
Softmax_Dim1(t) == Transpose12(SoftmaxLast(Transpose12(t)))

\* nn.Softmax(dim=2) of a 3-d tensor
Softmax2(t) == SoftmaxLast(t)

\* nn.Linear: y = x W^T + b on the last axis; lin = [W |-> tensor [out, in], b |-> tensor [out]]
Linear(lin, x) ==
    Tensor(<<x.shape[1], x.shape[2], lin.W.shape[1]>>,
           [idx \in Idx(3) |->
               Add(SumSeq([i \in 1..lin.W.shape[2] |->
                              Mul(At(x, <<idx[1], idx[2], i - 1>>),
                                  At(lin.W, <<idx[3], i - 1>>))]),
                   At(lin.b, <<idx[3]>>))])

\* ------------------------------------------------------------------------
\* State
VARIABLES
    self,   \* the MultiHeadAttention object: its attributes and parameters
    args,   \* the caller's tensors q, k, v, mask of the current forward call
    loc,    \* the local variables of MultiHeadAttention.forward
    pc,     \* the position of the forward call
    ret,    \* what the forward call gave back to the caller
    sa      \* the outcome of constructing a SelfAttention

vars == <<self, args, loc, pc, ret, sa>>

\* Python's None, and a local that is not bound yet
None == [shape |-> <<>>, data |-> <<>>]
IsNone(t) == t.shape = <<>>

\* ------------------------------------------------------------------------
\* Construction

\* the parameters of a constructed nn.Linear(in, out): output feature o reads
\* input feature (o + seed) % in, with a sign; every other output has a bias
LinearParams(in, out, seed, bias) ==
    [W |-> Tensor(<<out, in>>,
                  [idx \in Idx(2) |->
                      IF idx[2] = (idx[1] + seed) % in
                      THEN (IF ((idx[1] + seed) \div in) % 3 = 1 THEN Num(-1) ELSE Num(1))
                      ELSE Num(0)]),
     b |-> Tensor(<<out>>, [idx \in Idx(1) |-> Num(bias * (idx[1] % 2))])]

\* the parameters of a constructed nn.Linear(in, out) with a dense weight
DenseParams(in, out) ==
    [W |-> Tensor(<<out, in>>, [idx \in Idx(2) |-> Num(((idx[1] + 2 * idx[2]) % 3) - 1)]),
     b |-> Tensor(<<out>>, [idx \in Idx(1) |-> Num(idx[1] % 2)])]

ScaledDotProductAttention_Init(scale) == [scale |-> scale]

MultiHeadAttention_Init(n_head, query_input_dim, key_input_dim, value_input_dim, query_hidden, key_hidden, value_hidden, output_dim) ==
    [n_head |-> n_head,
     d_q |-> query_hidden,
     d_k |-> key_hidden,
     d_v |-> value_hidden,
     fc_q |-> LinearParams(query_input_dim, n_head * query_hidden, 0, 0),
     fc_k |-> LinearParams(key_input_dim, n_head * key_hidden, 1, 0),
     fc_v |-> LinearParams(value_input_dim, n_head * value_hidden, 0, 1),
     attention |-> ScaledDotProductAttention_Init(Num(Sqrt(key_hidden))),
     fc_o |-> DenseParams(n_head * value_hidden, output_dim)]

NoLocals ==
    [n_head |-> 0, d_q |-> 0, d_k |-> 0, d_v |-> 0,
     batch |-> 0, n_q |-> 0, n_k |-> 0, n_v |-> 0,
     q |-> None, k |-> None, v |-> None, mask |-> None,
     attn |-> None, output |-> None]

NoReturn == [status |-> "none", attn |-> None, output |-> None]

Init ==
    /\ \E n_head \in 1..MaxHead, qin \in InDims, vin \in InDims,
          kh \in HiddenDims, vh \in ValueDims, od \in OutDims :
          \E qh \in {kh, 1} :
              self = MultiHeadAttention_Init(n_head, qin, qin, vin, qh, kh, vh, od)
    /\ args = [q |-> None, k |-> None, v |-> None, mask |-> None]
    /\ loc = NoLocals
    /\ pc = "idle"
    /\ ret = NoReturn
    /\ sa = [status |-> "unbuilt", n_head |-> 0, d_k |-> 0, d_v |-> 0, d_x |-> 0, d_o |-> 0]

\* ------------------------------------------------------------------------
\* The tensors a caller passes
QueryData(shape) ==
    Tensor(shape, [idx \in Idx(3) |-> Num(((2 * idx[1] + idx[2] + idx[3]) % 3) - 1)])

KeyData(shape) ==
    Tensor(shape, [idx \in Idx(3) |-> Num(((1 + idx[1] + 2 * idx[2] + 2 * idx[3]) % 3) - 1)])

ValueData(shape) ==
    Tensor(shape, [idx \in Idx(3) |-> Num(((2 + idx[1] + idx[2] + 2 * idx[3]) % 3) - 1)])

\* torch.zeros(B, Nq, Nk).bool()
ClearMask(B, nq, nk) == Tensor(<<B, nq, nk>>, [idx \in Idx(3) |-> FALSE])

\* every key is masked for query i0 of batch element b0, and one key for
\* its other queries
RowMask(B, nq, nk, b0, i0) ==
    Tensor(<<B, nq, nk>>,
           [idx \in Idx(3) |-> idx[1] = b0 /\ (idx[2] = i0 \/ idx[3] = i0 % nk)])

Masks(B, nq, nk) ==
    {None, ClearMask(B, nq, nk)}
        \cup {RowMask(B, nq, nk, b0, i0) : b0 \in 0..(B - 1), i0 \in 0..(nq - 1)}

\* ------------------------------------------------------------------------
\* ScaledDotProductAttention.forward
ScaledDotProductAttention_forward(att, q, k, v, mask) ==
    IF ~BmmOk(q, Transpose12(k))
    THEN [status |-> "RuntimeError", attn |-> None, output |-> None]
    ELSE LET u0 == Bmm(q, Transpose12(k))
             u1 == DivScalar(u0, att.scale)
             u2 == IF IsNone(mask) THEN u1 ELSE MaskedFill(u1, mask, NegInf)
             attn == Softmax2(u2)
         IN  IF ~BmmOk(attn, v)
             THEN [status |-> "RuntimeError", attn |-> None, output |-> None]
             ELSE [status |-> "ok", attn |-> attn, output |-> Bmm(attn, v)]

\* ------------------------------------------------------------------------
\* MultiHeadAttention.forward

\* a head fold with the batch axis slower than the head axis
FoldHeads_BatchMajor(t, batch, n, n_head, d) ==
    View(Permute(View(t, <<batch, n, n_head, d>>), <<0, 2, 1, 3>>), <<-1, n, d>>)

\* t.view(batch, n, n_head, d).permute(2, 0, 1, 3).contiguous().view(-1, n, d)
FoldHeads(t, batch, n, n_head, d) ==
    View(Permute(View(t, <<batch, n, n_head, d>>), <<2, 0, 1, 3>>), <<-1, n, d>>)

\* a head unfold whose last view swaps the batch and the query axis
UnfoldHeads_Swapped(t, n_head, batch, n_q, d_v) ==
    View(Permute(View(t, <<n_head, batch, n_q, d_v>>), <<1, 2, 0, 3>>), <<n_q, batch, -1>>)

\* output.view(n_head, batch, n_q, d_v).permute(1, 2, 0, 3).contiguous().view(batch, n_q, -1)
UnfoldHeads(t, n_head, batch, n_q, d_v) ==
    View(Permute(View(t, <<n_head, batch, n_q, d_v>>), <<1, 2, 0, 3>>), <<batch, n_q, -1>>)

\* mask.repeat(n_head, 1, 1) when a mask is given
FoldMask(mask, n_head) == IF IsNone(mask) THEN None ELSE Repeat(mask, n_head)

\* the entry of forward without the check of the sequence lengths
Forward_Entry_NoCheck ==
    /\ pc = "idle"
    /\ \E B \in 1..MaxBatch, nq \in 1..MaxSeq, nk \in 1..MaxSeq :
       \E nv \in {nk, (nk % MaxSeq) + 1} :
          \E m \in Masks(B, nq, nk) :
              LET q == QueryData(<<B, nq, self.fc_q.W.shape[2]>>)
                  k == KeyData(<<B, nk, self.fc_k.W.shape[2]>>)
                  v == ValueData(<<B, nv, self.fc_v.W.shape[2]>>)
              IN  /\ args' = [q |-> q, k |-> k, v |-> v, mask |-> m]
                  /\ loc' = [NoLocals EXCEPT
                                !.n_head = self.n_head, !.d_q = self.d_q,
                                !.d_k = self.d_k, !.d_v = self.d_v,
                                !.batch = v.shape[1], !.n_q = q.shape[2],
                                !.n_k = k.shape[2], !.n_v = v.shape[2],
                                !.q = q, !.k = k, !.v = v, !.mask = m]
                  /\ pc' = "checked" /\ ret' = NoReturn
    /\ UNCHANGED <<self, sa>>

\* the call, the reading of the sizes and the check of the sequence lengths
Forward_Entry ==
    /\ pc = "idle"
    /\ \E B \in 1..MaxBatch, nq \in 1..MaxSeq, nk \in 1..MaxSeq :
       \E nv \in {nk, (nk % MaxSeq) + 1} :
          \E m \in Masks(B, nq, nk) :
              LET q == QueryData(<<B, nq, self.fc_q.W.shape[2]>>)
                  k == KeyData(<<B, nk, self.fc_k.W.shape[2]>>)
                  v == ValueData(<<B, nv, self.fc_v.W.shape[2]>>)
              IN  /\ args' = [q |-> q, k |-> k, v |-> v, mask |-> m]
                  /\ loc' = [NoLocals EXCEPT
                                !.n_head = self.n_head, !.d_q = self.d_q,
                                !.d_k = self.d_k, !.d_v = self.d_v,
                                !.batch = v.shape[1], !.n_q = q.shape[2],
                                !.n_k = k.shape[2], !.n_v = v.shape[2],
                                !.q = q, !.k = k, !.v = v, !.mask = m]
                  /\ IF k.shape[2] = v.shape[2]
                     THEN pc' = "checked" /\ ret' = NoReturn
                     ELSE /\ pc' = "failed"
                          /\ ret' = [NoReturn EXCEPT !.status = "AssertionError"]
    /\ UNCHANGED <<self, sa>>

\* a projection that writes its result into the caller's tensors
Project_InPlace ==
    /\ pc = "checked"
    /\ loc' = [loc EXCEPT !.q = Linear(self.fc_q, loc.q),
                          !.k = Linear(self.fc_k, loc.k),
                          !.v = Linear(self.fc_v, loc.v)]
    /\ args' = [args EXCEPT !.q = loc'.q, !.k = loc'.k, !.v = loc'.v]
    /\ pc' = "projected"
    /\ UNCHANGED <<self, ret, sa>>

\* fc_q, fc_k, fc_v on q, k, v
Project ==
    /\ pc = "checked"
    /\ loc' = [loc EXCEPT !.q = Linear(self.fc_q, loc.q),
                          !.k = Linear(self.fc_k, loc.k),
                          !.v = Linear(self.fc_v, loc.v)]
    /\ pc' = "projected"
    /\ UNCHANGED <<self, args, ret, sa>>

Fold ==
    /\ pc = "projected"
    /\ loc' = [loc EXCEPT
                  !.q = FoldHeads(loc.q, loc.batch, loc.n_q, loc.n_head, loc.d_q),
                  !.k = FoldHeads(loc.k, loc.batch, loc.n_k, loc.n_head, loc.d_k),
                  !.v = FoldHeads(loc.v, loc.batch, loc.n_v, loc.n_head, loc.d_v)]
    /\ pc' = "folded"
    /\ UNCHANGED <<self, args, ret, sa>>

Attend ==
    /\ pc = "folded"
    /\ LET mask == FoldMask(loc.mask, loc.n_head)
           r == ScaledDotProductAttention_forward(self.attention, loc.q, loc.k, loc.v, mask)
       IN  IF r.status = "ok"
           THEN /\ loc' = [loc EXCEPT !.mask = mask, !.attn = r.attn, !.output = r.output]
                /\ pc' = "attended"
                /\ ret' = ret
           ELSE /\ loc' = [loc EXCEPT !.mask = mask]
                /\ pc' = "failed"
                /\ ret' = [NoReturn EXCEPT !.status = r.status]
    /\ UNCHANGED <<self, args, sa>>

Concat ==
    /\ pc = "attended"
    /\ loc' = [loc EXCEPT
                  !.output = UnfoldHeads(loc.output, loc.n_head, loc.batch, loc.n_q, loc.d_v)]
    /\ pc' = "concat"
    /\ UNCHANGED <<self, args, ret, sa>>

OutProj ==
    /\ pc = "concat"
    /\ LET output == Linear(self.fc_o, loc.output)
       IN  /\ loc' = [loc EXCEPT !.output = output]
           /\ ret' = [status |-> "ok", attn |-> loc.attn, output |-> output]
    /\ pc' = "done"
    /\ UNCHANGED <<self, args, sa>>

\* the call is over: the caller has the result or the exception, the locals are gone
Return ==
    /\ pc \in {"done", "failed"}
    /\ pc' = "idle"
    /\ args' = [q |-> None, k |-> None, v |-> None, mask |-> None]
    /\ loc' = NoLocals
    /\ ret' = NoReturn
    /\ UNCHANGED <<self, sa>>

Next == Forward_Entry \/ Project \/ Fold \/ Attend \/ Concat \/ OutProj \/ Return

Spec == Init /\ [][Next]_vars

\* the whole of MultiHeadAttention.forward as a function of the object and
\* the caller's tensors
MultiHeadAttention_forward(s, q, k, v, mask) ==
    IF k.shape[2] # v.shape[2]
    THEN [NoReturn EXCEPT !.status = "AssertionError"]
    ELSE LET batch == v.shape[1]
             fq == FoldHeads(Linear(s.fc_q, q), batch, q.shape[2], s.n_head, s.d_q)
             fk == FoldHeads(Linear(s.fc_k, k), batch, k.shape[2], s.n_head, s.d_k)
             fv == FoldHeads(Linear(s.fc_v, v), batch, v.shape[2], s.n_head, s.d_v)
             r == ScaledDotProductAttention_forward(s.attention, fq, fk, fv,
                                                    FoldMask(mask, s.n_head))
         IN  IF r.status # "ok"
             THEN [NoReturn EXCEPT !.status = r.status]
             ELSE [status |-> "ok",
                   attn |-> r.attn,
                   output |-> Linear(s.fc_o,
                                     UnfoldHeads(r.output, s.n_head, batch, q.shape[2], s.d_v))]

\* ------------------------------------------------------------------------
\* SelfAttention.__init__

\* the parameter names of MultiHeadAttention.__init__
MultiHeadAttention_Params ==
    {"n_head", "query_input_dim", "key_input_dim", "value_input_dim",
     "query_hidden", "key_hidden", "value_hidden", "output_dim"}

\* a Python call by keyword: every keyword must name a parameter and every
\* parameter (none has a default) must be given
CallByKeyword(params, keywords) ==
    IF keywords \subseteq params /\ params \subseteq keywords THEN "ok" ELSE "TypeError"

\* the keywords SelfAttention.__init__ passes to MultiHeadAttention
SelfAttention_Keywords == {"n_head", "d_k_", "d_v_", "d_k", "d_v", "d_o"}

SelfAttention_Init ==
    /\ sa.status = "unbuilt"
    /\ \E n_head \in 1..MaxHead, d_k \in HiddenDims, d_v \in ValueDims,
          d_x \in InDims, d_o \in OutDims :
          sa' = [status |-> CallByKeyword(MultiHeadAttention_Params, SelfAttention_Keywords),
                 n_head |-> n_head, d_k |-> d_k, d_v |-> d_v, d_x |-> d_x, d_o |-> d_o]
    /\ UNCHANGED <<self, args, loc, pc, ret>>

NextSA == SelfAttention_Init

SpecSA == Init /\ [][NextSA]_vars

\* ------------------------------------------------------------------------
\* Properties

Zero == <<0, 1>>
One == <<1, 1>>

\* the attention step of the current call has returned
Attended == pc \in {"attended", "concat", "done"}

\* row i of batch element b of a 3-d tensor
RowOf(t, b, i) == [j \in 1..t.shape[3] |-> At(t, <<b, i, j - 1>>)]

\* every key of query i of batch element b is masked
FullyMasked(mask, b, i) == \A j \in 0..(mask.shape[3] - 1) : At(mask, <<b, i, j>>)

\* the mask the attention step got leaves some key to query i of batch element b
RowOpen(mask, b, i) == IsNone(mask) \/ ~FullyMasked(mask, b, i)

\* C1: constructing a SelfAttention succeeds
C1_SelfAttentionConstructs == sa.status \in {"unbuilt", "ok"}

C3_MaskedWeightZero ==
    (Attended /\ ~IsNone(loc.mask)) =>
        \A b \in 0..(loc.mask.shape[1] - 1), i \in 0..(loc.mask.shape[2] - 1) :
            ~FullyMasked(loc.mask, b, i) =>
                /\ \A j \in 0..(loc.mask.shape[3] - 1) :
                       At(loc.mask, <<b, i, j>>) => At(loc.attn, <<b, i, j>>) = Zero
                /\ pc = "attended" =>
                       \A f \in 0..(loc.v.shape[3] - 1) :
                           At(loc.output, <<b, i, f>>) =
                               SumSeq([j \in 1..loc.mask.shape[3] |->
                                          IF At(loc.mask, <<b, i, j - 1>>) THEN Zero
                                          ELSE Mul(At(loc.attn, <<b, i, j - 1>>),
                                                   At(loc.v, <<b, j - 1, f>>))])

C3_Witness ==
    /\ pc = "attended"
    /\ ~IsNone(loc.mask)
    /\ \E b \in 0..(loc.mask.shape[1] - 1), i \in 0..(loc.mask.shape[2] - 1) :
           /\ ~FullyMasked(loc.mask, b, i)
           /\ \E j \in 0..(loc.mask.shape[3] - 1) :
                  /\ At(loc.mask, <<b, i, j>>)
                  /\ \E f \in 0..(loc.v.shape[3] - 1) : At(loc.v, <<b, j, f>>) # Zero

\* C4: every row of attn that is not fully masked has only non-negative
\* weights and they sum to 1
C4_RowsSumToOne ==
    Attended =>
        \A b \in 0..(loc.attn.shape[1] - 1), i \in 0..(loc.attn.shape[2] - 1) :
            RowOpen(loc.mask, b, i) =>
                /\ \A j \in 0..(loc.attn.shape[3] - 1) :
                       /\ IsFinite(At(loc.attn, <<b, i, j>>))
                       /\ ~Less(At(loc.attn, <<b, i, j>>), Zero)
                /\ SumSeq(RowOf(loc.attn, b, i)) = One

C4_Witness ==
    /\ pc = "attended"
    /\ loc.attn.shape[3] = 2
    /\ loc.attn.shape[2] = 2
    /\ \E b \in 0..(loc.attn.shape[1] - 1), i \in 0..(loc.attn.shape[2] - 1) :
           /\ RowOpen(loc.mask, b, i)
           /\ At(loc.attn, <<b, i, 0>>) \notin {Zero, One, <<1, 2>>}

\* a mask was given and it masks nothing
AllFalse(mask) == ~IsNone(mask) /\ \A f \in 1..Numel(mask) : ~mask.data[f]

\* C5: with a mask whose entries are all false, the attention step and the
\* whole forward call return what they return with no mask
C5_AllFalseMaskIsNoMask ==
    AllFalse(args.mask) =>
        /\ Attended =>
               LET r == ScaledDotProductAttention_forward(self.attention,
                                                          loc.q, loc.k, loc.v, None)
               IN  /\ loc.attn = r.attn
                   /\ pc = "attended" => loc.output = r.output
        /\ pc = "done" =>
               ret = MultiHeadAttention_forward(self, args.q, args.k, args.v, None)

C5_Witness ==
    /\ pc = "done"
    /\ AllFalse(args.mask)
    /\ self.n_head = 2
    /\ args.k.shape[2] = 2
    /\ \E f \in 1..Numel(ret.attn) : ret.attn.data[f] \notin {Zero, One, <<1, 2>>}

\* C6: a forward call with Nk # Nv fails at the entry check: it raises the
\* assertion error, returns no attn and no output, and no projection, head
\* split or attention step has run
C6_LengthMismatchFailsFast ==
    (pc # "idle" /\ args.k.shape[2] # args.v.shape[2]) =>
        /\ pc = "failed"
        /\ ret = [NoReturn EXCEPT !.status = "AssertionError"]
        /\ loc.q = args.q /\ loc.k = args.k /\ loc.v = args.v
        /\ IsNone(loc.attn) /\ IsNone(loc.output)

C6_Witness ==
    /\ pc = "failed"
    /\ args.k.shape[2] # args.v.shape[2]
    /\ ret.status = "AssertionError"
    /\ ~IsNone(args.mask)

\* C7: no step of a forward call, successful or failing, changes the object
\* (scale, head count, head sizes, projection parameters) or the caller's
\* q, k, v and mask
C7_NoSideEffects ==
    [][/\ self' = self
       /\ (pc # "idle" /\ pc' # "idle") => args' = args]_vars

C7_Witness ==
    /\ pc = "done"
    /\ ~IsNone(args.mask)
    /\ args.q = QueryData(args.q.shape)
    /\ loc.q # args.q
    /\ self.attention.scale = Num(Sqrt(self.d_k))

\* batch element b of t, features lo .. lo + d - 1, as a tensor [1, n, d]
HeadSlice(t, b, lo, d) ==
    Tensor(<<1, t.shape[2], d>>, [idx \in Idx(3) |-> At(t, <<b, idx[2], lo + idx[3]>>)])

\* batch element b of a mask, as a mask [1, Nq, Nk]
MaskOf(mask, b) ==
    IF IsNone(mask) THEN None
    ELSE Tensor(<<1, mask.shape[2], mask.shape[3]>>,
                [idx \in Idx(3) |-> At(mask, <<b, idx[2], idx[3]>>)])

\* the attention of head h of batch element b, run on its own on its
\* features of the projected tensors pq, pk, pv
HeadAttention(pq, pk, pv, b, h) ==
    ScaledDotProductAttention_forward(
        self.attention,
        HeadSlice(pq, b, h * self.d_q, self.d_q),
        HeadSlice(pk, b, h * self.d_k, self.d_k),
        HeadSlice(pv, b, h * self.d_v, self.d_v),
        MaskOf(args.mask, b))

\* C8: the concatenated output at [b, i, h*d_v + j] and the attn at folded
\* index h*B + b are those of the attention of head h of batch element b run
\* on its own, on features [h*d, (h+1)*d) of the projected q, k and v
C8_FoldMatchesUnfold ==
    pc = "concat" =>
        LET pq == Linear(self.fc_q, args.q)
            pk == Linear(self.fc_k, args.k)
            pv == Linear(self.fc_v, args.v)
        IN
        \A b \in 0..(loc.batch - 1), h \in 0..(loc.n_head - 1) :
            LET r == HeadAttention(pq, pk, pv, b, h)
            IN  \A i \in 0..(loc.n_q - 1) :
                    /\ \A j \in 0..(loc.d_v - 1) :
                           At(loc.output, <<b, i, h * loc.d_v + j>>) = At(r.output, <<0, i, j>>)
                    /\ \A j \in 0..(loc.n_k - 1) :
                           At(loc.attn, <<h * loc.batch + b, i, j>>) = At(r.attn, <<0, i, j>>)

C8_Witness ==
    /\ pc = "concat"
    /\ loc.n_head = 2 /\ loc.batch = 2 /\ loc.d_v = 2 /\ loc.n_q = 2 /\ loc.n_k = 2
    /\ LET pq == Linear(self.fc_q, args.q)
           pk == Linear(self.fc_k, args.k)
           pv == Linear(self.fc_v, args.v)
       IN  /\ HeadAttention(pq, pk, pv, 0, 0).output # HeadAttention(pq, pk, pv, 1, 0).output
           /\ HeadAttention(pq, pk, pv, 0, 0).output # HeadAttention(pq, pk, pv, 0, 1).output

\* C9: the mask applied at folded index h*B + b is mask[b], and in a row that
\* is not fully masked the weight of head h for (i, j) of batch element b is 0
\* exactly when mask[b, i, j] is true
C9_MaskFollowsFold ==
    (Attended /\ ~IsNone(args.mask)) =>
        \A h \in 0..(loc.n_head - 1), b \in 0..(loc.batch - 1),
           i \in 0..(loc.n_q - 1), j \in 0..(loc.n_k - 1) :
            /\ At(loc.mask, <<h * loc.batch + b, i, j>>) = At(args.mask, <<b, i, j>>)
            /\ ~FullyMasked(args.mask, b, i) =>
                   (At(loc.attn, <<h * loc.batch + b, i, j>>) = Zero
                        <=> At(args.mask, <<b, i, j>>))

C9_Witness ==
    /\ pc = "attended"
    /\ loc.n_head = 2 /\ loc.batch = 2
    /\ ~IsNone(args.mask)
    /\ MaskOf(args.mask, 0) # MaskOf(args.mask, 1)
    /\ \E i \in 0..(loc.n_q - 1) :
           ~FullyMasked(args.mask, 0, i) /\ \E j \in 0..(loc.n_k - 1) : At(args.mask, <<0, i, j>>)

\* the mask with its fully masked rows cleared
WithoutFullRows(mask) ==
    Tensor(mask.shape,
           [idx \in Idx(3) |-> At(mask, idx) /\ ~FullyMasked(mask, idx[1], idx[2])])

\* C10: a fully masked row raises no error; every attn weight and every
\* output feature of that row is NaN, and the rows that are not fully masked
\* have the values they have when the fully masked rows are not masked
C10_FullyMaskedRowIsNaN ==
    /\ (pc = "attended" /\ ~IsNone(loc.mask)) =>
           LET r == ScaledDotProductAttention_forward(self.attention, loc.q, loc.k,
                                                      loc.v, WithoutFullRows(loc.mask))
           IN  \A b \in 0..(loc.mask.shape[1] - 1), i \in 0..(loc.mask.shape[2] - 1) :
                   IF FullyMasked(loc.mask, b, i)
                   THEN /\ \A j \in 0..(loc.attn.shape[3] - 1) :
                               At(loc.attn, <<b, i, j>>) = NaN
                        /\ \A f \in 0..(loc.output.shape[3] - 1) :
                               At(loc.output, <<b, i, f>>) = NaN
                   ELSE /\ RowOf(loc.attn, b, i) = RowOf(r.attn, b, i)
                        /\ RowOf(loc.output, b, i) = RowOf(r.output, b, i)
    /\ (pc = "failed" /\ ret.status = "RuntimeError") => self.d_q # self.d_k

C10_Witness ==
    /\ pc = "attended"
    /\ ~IsNone(loc.mask)
    /\ loc.n_k = 2
    /\ \E b \in 0..(loc.mask.shape[1] - 1) :
           \E i1 \in 0..(loc.n_q - 1), i2 \in 0..(loc.n_q - 1) :
               /\ FullyMasked(loc.mask, b, i1)
               /\ ~FullyMasked(loc.mask, b, i2)
               /\ \E j \in 0..(loc.n_k - 1) : At(loc.mask, <<b, i2, j>>)

====
